---- MODULE Spec2Model ----
(***************************************************************************)
(* Crate: an observable key/value state container (src/src/index.ts).     *)
(*                                                                         *)
(* The crate is built over the schema { Health: number, Items: table }.   *)
(* A value is a record [t, v]: t is the Luau type tag that typeIs reads,  *)
(* v the number itself, or for a table the address of the table in the    *)
(* heap.  === on two tables compares addresses, so two tables with equal  *)
(* content are different values unless they are the same table.           *)
(*                                                                         *)
(* Spec makes every call one step, with callbacks that do nothing; the    *)
(* further specifications add Destroy (SpecDestroy), Update(Dispatch)     *)
(* (SpecDispatch), tables the caller writes into (SpecHeld), the revision *)
(* src/unnamed/part_000 with its open/closed flag (SpecRev0) and          *)
(* callbacks that call back into the crate (SpecReentrant).               *)
(***************************************************************************)
EXTENDS Integers, Sequences, FiniteSets, TLC

\* ------------------------------------------------------------------ bounds
MaxAddr == 6          \* tables that may be alive at once
MaxNum == 150         \* largest number a key may hold
MaxConnections == 1   \* OnChange connections made on one crate
MaxListeners == 2     \* the same, on a crate whose callbacks call back into it
MaxDepth == 2         \* Fire calls that may be running, one inside the other

\* --------------------------------------------------------------- constants
ClampMin == 0         \* math.clamp(New, 0, 100) of the documented middleware
ClampMax == 100
StartHealth == 100    \* new Crate({ Health: 100 })

\* ------------------------------------------------------------------ inputs
Keys == {"Health", "Items"}
Addr == 1..MaxAddr
Contents == {0, 1}                 \* what a table may hold
NumCands == {-10, 150}             \* numbers a caller passes to Update
Amounts == {0, 160}                \* amounts a caller passes to Increment
Transforms == {"Clamp", "KeepOld"} \* middleware a caller registers, on numbers
Reactions == {"none", "SetHealth", "Bump"}
                                   \* what a callback does: nothing, or on the same
                                   \* crate Update("Health", 150), Increment("Health", 0)

Num(n) == [t |-> "number", v |-> n]
Tbl(a) == [t |-> "table", v |-> a]
Undefined == [t |-> "nil", v |-> 0]
typeIs(Val, T) == Val.t = T

VARIABLES
    State,          \* this.State: Keys -> value
    InitialState,   \* this.InitialState: Keys -> value
    heap,           \* the tables alive: address -> content
    LockedKeys,     \* this.LockedKeys
    MiddlewareMap,  \* this.MiddlewareMap: Keys -> transform or "none"
    Connections,    \* this.Connections, in connection order
    IsVerbose,      \* this.IsVerbose
    call,           \* the last call made on the crate and what it produced
    snapped,        \* the record, by content, at the last Snapshot()
    registered,     \* per key, the transform of the last Middleware(Key, _) call
    stack,          \* the Fire calls running, the innermost last
    CrateOpen       \* this.CrateOpen, a field of the revision src/unnamed/part_000

vars == <<State, InitialState, heap, LockedKeys, MiddlewareMap, Connections,
          IsVerbose, call, snapped, registered, stack, CrateOpen>>

\* -------------------------------------------------------------------- heap
Min(S) == CHOOSE a \in S : \A b \in S : a <= b
Free(h) == Addr \ DOMAIN h
Room(h, n) == Cardinality(Free(h)) >= n
\* a new table {content}: the lowest free address
NewTable(h) == Min(Free(h))
Put(h, a, c) == [b \in DOMAIN h \cup {a} |-> IF b = a THEN c ELSE h[b]]

\* a value / a record by content: what a reader of it sees
DerefVal(Val, h) == IF typeIs(Val, "table") THEN [t |-> "table", v |-> h[Val.v]] ELSE Val
DerefRec(Object, h) == [k \in Keys |-> DerefVal(Object[k], h)]

\* The garbage collector.  Once a call has returned, the tables alive are those
\* this.State and this.InitialState refer to.  An address means nothing but the
\* identity of its table, so the tables kept are numbered afresh, in the order
\* State (1), InitialState (2, or 1 when it is the table of State); the values
\* left in `call` keep the addresses of the call.
Collect(S, I, h) ==
    IF S.Items.v = I.Items.v
    THEN [State |-> [S EXCEPT !.Items = Tbl(1)], InitialState |-> [I EXCEPT !.Items = Tbl(1)],
          heap |-> <<h[S.Items.v]>>]
    ELSE [State |-> [S EXCEPT !.Items = Tbl(1)], InitialState |-> [I EXCEPT !.Items = Tbl(2)],
          heap |-> <<h[S.Items.v], h[I.Items.v]>>]

\* DeepCopy(Object): a new table for every table-valued field, same content
RECURSIVE CopyFields(_, _, _, _)
CopyFields(Object, ks, Copy, h) ==
    IF ks = {} THEN [obj |-> Copy, heap |-> h]
    ELSE LET Key == CHOOSE k \in ks : TRUE
             Val == Object[Key]
         IN  IF typeIs(Val, "table")
             THEN LET a == NewTable(h)
                  IN  CopyFields(Object, ks \ {Key},
                                 [Copy EXCEPT ![Key] = Tbl(a)], Put(h, a, h[Val.v]))
             ELSE CopyFields(Object, ks \ {Key}, [Copy EXCEPT ![Key] = Val], h)

\* DeepCopy(Object) that copies the tables and drops every other field
DeepCopy_TablesOnly(Object, h) ==
    CopyFields([k \in DOMAIN Object |->
                    IF typeIs(Object[k], "table") THEN Object[k] ELSE Undefined],
               Keys, [k \in DOMAIN Object |-> Undefined], h)

DeepCopy(Object, h) == CopyFields(Object, Keys, Object, h)

\* the keys pairs(Object) visits: a field holding nil is no field
KeysOf(Object) == {k \in DOMAIN Object : ~typeIs(Object[k], "nil")}

\* --------------------------------------------------------------------- log
\* Log(Msg, Verbose = true): the number of warn() calls it makes
Log(Verbose) == IF ~Verbose \/ IsVerbose THEN 1 ELSE 0

\* -------------------------------------------------------------- middleware
clamp(n, lo, hi) == IF n < lo THEN lo ELSE IF n > hi THEN hi ELSE n

\* Method(New, Old) for the transforms a caller registers
Method(m, New, Old) ==
    CASE m = "Clamp" -> Num(clamp(New.v, ClampMin, ClampMax))
      [] m = "KeepOld" -> Old

\* ExecuteMiddleware(Key, New, Old): the result, the transforms run, the warnings
ExecuteMiddleware(Key, New, Old, slow) ==
    LET m == MiddlewareMap[Key]
    IN  [Result |-> IF m # "none" THEN Method(m, New, Old) ELSE New,
         mw |-> IF m # "none" THEN 1 ELSE 0,
         warns |-> IF slow THEN 1 ELSE 0]

\* ----------------------------------------------------------- notification
\* a handler that calls back whatever the key fired
Handler_AnyKey(i, K, O, N, S, h) ==
    IF ~Connections[i].connected THEN <<>>
    ELSE <<[sub |-> i, K |-> K, New |-> DerefVal(N, h), Old |-> DerefVal(O, h)]>>

\* a whole-store handler that forgets `Old[K] = O`
Handler_NoSubstitute(i, K, O, N, S, h) ==
    LET c == Connections[i]
    IN  IF ~c.connected THEN <<>>
        ELSE IF c.scope = "Scoped"
        THEN IF c.Key = K
             THEN <<[sub |-> i, K |-> K, New |-> DerefVal(N, h), Old |-> DerefVal(O, h)]>>
             ELSE <<>>
        ELSE LET Old == DeepCopy(S, h)
                 New == DeepCopy(S, Old.heap)
             IN  <<[sub |-> i, K |-> K, New |-> DerefRec(New.obj, New.heap),
                    Old |-> DerefRec(Old.obj, New.heap)]>>

\* the handler OnChange connects, run for Fire(K, O, N) with the record S; Fire
\* calls the handlers still connected
Handler(i, K, O, N, S, h) ==
    LET c == Connections[i]
    IN  IF ~c.connected THEN <<>>
        ELSE IF c.scope = "Scoped"
        THEN IF c.Key = K
             THEN <<[sub |-> i, K |-> K, New |-> DerefVal(N, h), Old |-> DerefVal(O, h)]>>
             ELSE <<>>
        ELSE LET Old == DeepCopy(S, h)
                 Old2 == [Old.obj EXCEPT ![K] = O]
                 New == DeepCopy(S, Old.heap)
             IN  <<[sub |-> i, K |-> K, New |-> DerefRec(New.obj, New.heap),
                    Old |-> DerefRec(Old2, New.heap)]>>

RECURSIVE FireFrom(_, _, _, _, _, _)
FireFrom(i, K, O, N, S, h) ==
    IF i > Len(Connections) THEN <<>>
    ELSE Handler(i, K, O, N, S, h) \o FireFrom(i + 1, K, O, N, S, h)

\* this.UpdateBind.Fire(K, O, N): every handler, in connection order
Fire(K, O, N, S, h) == FireFrom(1, K, O, N, S, h)

\* ------------------------------------------------------------- operations
\* what a call that reads or writes no value leaves in `call`
Plain(op, key) ==
    [op |-> op, key |-> key, arg |-> Undefined, argS |-> Undefined,
     old |-> Undefined, unchanged |-> TRUE,
     ret |-> Undefined, fires |-> <<>>, fired |-> <<>>, warns |-> 0, mw |-> 0]

\* Update(Key, Value) without `if (Result === Old) return Old`
UpdateKey_NoShortCircuit(Key, Value, S, slow) ==
    IF Key \in LockedKeys
    THEN [State |-> S, ret |-> Undefined, fires |-> <<>>, warns |-> Log(TRUE), mw |-> 0]
    ELSE LET Old == S[Key]
             MW == ExecuteMiddleware(Key, Value, Old, slow)
         IN  [State |-> [S EXCEPT ![Key] = MW.Result], ret |-> Old,
              fires |-> <<[K |-> Key, O |-> Old, N |-> MW.Result]>>,
              warns |-> MW.warns, mw |-> MW.mw]

\* Update(Key, Value) that fires before it writes this.State[Key]
UpdateKey_FireFirst(Key, Value, S, slow) ==
    IF Key \in LockedKeys
    THEN [State |-> S, ret |-> Undefined, fires |-> <<>>, warns |-> Log(TRUE), mw |-> 0]
    ELSE LET Old == S[Key]
             MW == ExecuteMiddleware(Key, Value, Old, slow)
             Result == MW.Result
         IN  IF Result = Old
             THEN [State |-> S, ret |-> Old, fires |-> <<>>, warns |-> MW.warns, mw |-> MW.mw]
             ELSE [State |-> S, ret |-> Old,
                   fires |-> <<[K |-> Key, O |-> Old, N |-> Result]>>,
                   warns |-> MW.warns, mw |-> MW.mw]

\* Update(Key, Value) that fires Fire(Key, Result, Result)
UpdateKey_FiresNewAsOld(Key, Value, S, slow) ==
    IF Key \in LockedKeys
    THEN [State |-> S, ret |-> Undefined, fires |-> <<>>, warns |-> Log(TRUE), mw |-> 0]
    ELSE LET Old == S[Key]
             MW == ExecuteMiddleware(Key, Value, Old, slow)
             Result == MW.Result
         IN  IF Result = Old
             THEN [State |-> S, ret |-> Old, fires |-> <<>>, warns |-> MW.warns, mw |-> MW.mw]
             ELSE [State |-> [S EXCEPT ![Key] = Result], ret |-> Old,
                   fires |-> <<[K |-> Key, O |-> Result, N |-> Result]>>,
                   warns |-> MW.warns, mw |-> MW.mw]

\* Update(Key, Value), single key, on the record S
UpdateKey(Key, Value, S, slow) ==
    IF Key \in LockedKeys
    THEN [State |-> S, ret |-> Undefined, fires |-> <<>>, warns |-> Log(TRUE), mw |-> 0]
    ELSE LET Old == S[Key]
             MW == ExecuteMiddleware(Key, Value, Old, slow)
             Result == MW.Result
         IN  IF Result = Old
             THEN [State |-> S, ret |-> Old, fires |-> <<>>, warns |-> MW.warns, mw |-> MW.mw]
             ELSE [State |-> [S EXCEPT ![Key] = Result], ret |-> Old,
                   fires |-> <<[K |-> Key, O |-> Old, N |-> Result]>>,
                   warns |-> MW.warns, mw |-> MW.mw]

\* Increment(Key, Amount) with the equality check of Update
IncrementKey_ShortCircuit(Key, Amount, S, slow) ==
    IF Key \in LockedKeys
    THEN [State |-> S, ret |-> S[Key], fires |-> <<>>, warns |-> 0, mw |-> 0]
    ELSE IF ~typeIs(S[Key], "number")
    THEN [State |-> S, ret |-> S[Key], fires |-> <<>>, warns |-> Log(TRUE), mw |-> 0]
    ELSE UpdateKey(Key, Num(S[Key].v + Amount), S, slow)

\* Increment(Key, Amount) on the record S
IncrementKey(Key, Amount, S, slow) ==
    IF Key \in LockedKeys
    THEN [State |-> S, ret |-> S[Key], fires |-> <<>>, warns |-> 0, mw |-> 0]
    ELSE IF ~typeIs(S[Key], "number")
    THEN [State |-> S, ret |-> S[Key], fires |-> <<>>, warns |-> Log(TRUE), mw |-> 0]
    ELSE LET Old == S[Key]
             New == Num(Old.v + Amount)
             MW == ExecuteMiddleware(Key, New, Old, slow)
             Result == MW.Result
         IN  [State |-> [S EXCEPT ![Key] = Result], ret |-> Old,
              fires |-> <<[K |-> Key, O |-> Old, N |-> Result]>>,
              warns |-> MW.warns, mw |-> MW.mw]

\* the middleware is timed only when it runs
MayBeSlow(Key, slow) == slow => (Key \notin LockedKeys /\ MiddlewareMap[Key] # "none")

\* the record T is the record S: the same values, the tables untouched
Same(T, hT, S, hS) == T = S /\ DerefRec(T, hT) = DerefRec(S, hS)

InRange(S) == \A k \in Keys : typeIs(S[k], "number") => S[k].v <= MaxNum

\* a call of Update / Increment / Reset returns: its handlers have run
Returned(op, Key, Value, out, h) ==
    /\ stack = <<>>
    /\ InRange(out.State)
    /\ LET gc == Collect(out.State, InitialState, h)
       IN  State' = gc.State /\ InitialState' = gc.InitialState /\ heap' = gc.heap
    /\ call' = [op |-> op, key |-> Key, arg |-> Value, argS |-> DerefVal(Value, h),
                old |-> State[Key],
                unchanged |-> Same(out.State, h, State, heap),
                ret |-> out.ret,
                fires |-> [i \in DOMAIN out.fires |->
                             [K |-> out.fires[i].K, O |-> out.fires[i].O, N |-> out.fires[i].N,
                              OS |-> DerefVal(out.fires[i].O, h),
                              NS |-> DerefVal(out.fires[i].N, h)]],
                fired |-> IF out.fires = <<>> THEN <<>>
                          ELSE Fire(Key, out.fires[1].O, out.fires[1].N, out.State, h),
                warns |-> out.warns, mw |-> out.mw]
    /\ UNCHANGED <<LockedKeys, MiddlewareMap, Connections, IsVerbose, snapped, registered, stack,
                   CrateOpen>>

\* the values a caller has at hand for Update(Key, _): a number, a table it
\* builds, or the value Get(Key) gave it
Update ==
    \E Key \in Keys, slow \in BOOLEAN :
        /\ MayBeSlow(Key, slow)
        /\ Room(heap, 3)
        /\ \/ \E n \in NumCands :
                /\ typeIs(State[Key], "number")
                /\ Returned("Update", Key, Num(n), UpdateKey(Key, Num(n), State, slow), heap)
           \/ \E c \in Contents :
                /\ typeIs(State[Key], "table")
                /\ LET a == NewTable(heap)
                   IN  Returned("Update", Key, Tbl(a), UpdateKey(Key, Tbl(a), State, slow),
                                Put(heap, a, c))
           \/ Returned("Update", Key, State[Key], UpdateKey(Key, State[Key], State, slow), heap)

Increment ==
    \E Key \in Keys, Amount \in Amounts, slow \in BOOLEAN :
        /\ MayBeSlow(Key, slow)
        /\ slow => typeIs(State[Key], "number")
        /\ Room(heap, 3)
        /\ Returned("Increment", Key, Num(Amount), IncrementKey(Key, Amount, State, slow), heap)

\* Reset(Key) that writes the default itself: no lock check, no middleware
ResetKey_Direct(Key, S, slow) ==
    IF S[Key] = InitialState[Key]
    THEN [State |-> S, ret |-> S[Key], fires |-> <<>>, warns |-> 0, mw |-> 0]
    ELSE [State |-> [S EXCEPT ![Key] = InitialState[Key]], ret |-> S[Key],
          fires |-> <<[K |-> Key, O |-> S[Key], N |-> InitialState[Key]]>>,
          warns |-> 0, mw |-> 0]

\* Reset(Key): this.Update(Key, this.InitialState[Key])
ResetKey(Key, S, slow) == UpdateKey(Key, InitialState[Key], S, slow)

Reset ==
    \E Key \in Keys, slow \in BOOLEAN :
        /\ MayBeSlow(Key, slow)
        /\ Room(heap, 3)
        /\ Returned("Reset", Key, InitialState[Key], ResetKey(Key, State, slow), heap)

\* Restore() that leaves the locked keys as they are
RestoreState_SkipLocked(h) ==
    LET c == DeepCopy(InitialState, h)
    IN  [obj |-> [k \in Keys |-> IF k \in LockedKeys THEN State[k] ELSE c.obj[k]],
         heap |-> c.heap]

\* Restore(): this.State = DeepCopy(this.InitialState)
RestoreState(h) == DeepCopy(InitialState, h)

Restore ==
    /\ stack = <<>>
    /\ Room(heap, 3)
    /\ LET c == RestoreState(heap)
           gc == Collect(c.obj, InitialState, c.heap)
       IN  State' = gc.State /\ InitialState' = gc.InitialState /\ heap' = gc.heap
    /\ call' = [Plain("Restore", "") EXCEPT
                   !.unchanged = (DerefRec(State', heap') = DerefRec(State, heap))]
    /\ UNCHANGED <<LockedKeys, MiddlewareMap, Connections, IsVerbose, snapped, registered, stack,
                   CrateOpen>>

\* Snapshot() that keeps the old default
SnapshotState_Kept(h) == [obj |-> InitialState, heap |-> h]

\* Snapshot(): this.InitialState = DeepCopy(this.State)
SnapshotState(h) == DeepCopy(State, h)

Snapshot ==
    /\ stack = <<>>
    /\ Room(heap, 3)
    /\ LET c == SnapshotState(heap)
           gc == Collect(State, c.obj, c.heap)
       IN  State' = gc.State /\ InitialState' = gc.InitialState /\ heap' = gc.heap
    /\ snapped' = DerefRec(State, heap)
    /\ call' = Plain("Snapshot", "")
    /\ UNCHANGED <<LockedKeys, MiddlewareMap, Connections, IsVerbose, registered, stack, CrateOpen>>

\* Overwrite(State): this.State = State, a record the caller builds
Overwrite ==
    \E n \in NumCands, c \in Contents :
        /\ stack = <<>>
        /\ Room(heap, 3)
        /\ LET a == NewTable(heap)
               gc == Collect([Health |-> Num(n), Items |-> Tbl(a)], InitialState,
                             Put(heap, a, c))
           IN  State' = gc.State /\ InitialState' = gc.InitialState /\ heap' = gc.heap
        /\ call' = [Plain("Overwrite", "") EXCEPT
                       !.unchanged = (DerefRec(State', heap') = DerefRec(State, heap))]
        /\ UNCHANGED <<LockedKeys, MiddlewareMap, Connections, IsVerbose, snapped, registered,
                       stack, CrateOpen>>

\* Lock(Key) / Lock(): the keys of this.State
LockKeys(Key) == IF Key # "" THEN LockedKeys \cup {Key} ELSE LockedKeys \cup DOMAIN State

Lock ==
    \E Key \in Keys \cup {""} :
        /\ stack = <<>>
        /\ LockedKeys' = LockKeys(Key)
        /\ call' = Plain("Lock", Key)
        /\ UNCHANGED <<State, InitialState, heap, MiddlewareMap, Connections, IsVerbose, snapped,
                       registered, stack, CrateOpen>>

\* IsLocked() that answers for a crate with some key locked
IsLocked_Any(Key) ==
    IF Key # "" THEN Key \in LockedKeys ELSE \E k \in DOMAIN State : k \in LockedKeys

\* IsLocked(Key) / IsLocked(): no key of this.State is unlocked
IsLocked(Key) ==
    IF Key # "" THEN Key \in LockedKeys ELSE \A k \in DOMAIN State : k \in LockedKeys

UnlockKeys(Key) == IF Key # "" THEN LockedKeys \ {Key} ELSE LockedKeys \ DOMAIN State

Unlock ==
    \E Key \in Keys \cup {""} :
        /\ stack = <<>>
        /\ LockedKeys' = UnlockKeys(Key)
        /\ call' = Plain("Unlock", Key)
        /\ UNCHANGED <<State, InitialState, heap, MiddlewareMap, Connections, IsVerbose, snapped,
                       registered, stack, CrateOpen>>

\* Middleware(Key, m): this.MiddlewareMap.set(Key, m); the transforms are typed
\* (New: number, Old: number) => number
\* Middleware(Key, m) that keeps a transform already registered
SetMiddleware_KeepFirst(Key, m) ==
    IF MiddlewareMap[Key] # "none" THEN MiddlewareMap ELSE [MiddlewareMap EXCEPT ![Key] = m]

SetMiddleware(Key, m) == [MiddlewareMap EXCEPT ![Key] = m]

Middleware ==
    \E Key \in Keys, m \in Transforms :
        /\ stack = <<>>
        /\ typeIs(State[Key], "number")
        /\ MiddlewareMap' = SetMiddleware(Key, m)
        /\ registered' = [registered EXCEPT ![Key] = m]
        /\ call' = Plain("Middleware", "")
        /\ UNCHANGED <<State, InitialState, heap, LockedKeys, Connections, IsVerbose, snapped,
                       stack, CrateOpen>>

\* OnChange(Key, Callback) / OnChange(Callback)
\* react: what the callback itself does when it is called; destroyed: whether
\* Destroy() has been called since the connection was made
Connect(scope, Key, react) ==
    Append(Connections, [scope |-> scope, Key |-> Key, react |-> react, connected |-> TRUE,
                         destroyed |-> FALSE])

OnChange ==
    /\ stack = <<>>
    /\ Len(Connections) < MaxConnections
    /\ \/ \E Key \in Keys : Connections' = Connect("Scoped", Key, "none")
       \/ Connections' = Connect("Global", "", "none")
    /\ call' = Plain("OnChange", "")
    /\ UNCHANGED <<State, InitialState, heap, LockedKeys, MiddlewareMap, IsVerbose, snapped,
                   registered, stack, CrateOpen>>

\* C.Disconnect() that leaves the connection as it is
Disconnect_Never(C) == C

\* C.Disconnect()
Disconnect(C) == [C EXCEPT !.connected = FALSE]

\* Destroy(): every connection disconnected, the event destroyed
Destroy ==
    /\ stack = <<>>
    /\ Connections' = [i \in DOMAIN Connections |->
                           [Disconnect(Connections[i]) EXCEPT !.destroyed = TRUE]]
    /\ call' = Plain("Destroy", "")
    /\ UNCHANGED <<State, InitialState, heap, LockedKeys, MiddlewareMap, IsVerbose, snapped,
                   registered, stack, CrateOpen>>

Verbose ==
    /\ stack = <<>>
    /\ IsVerbose' = TRUE
    /\ call' = Plain("Verbose", "")
    /\ UNCHANGED <<State, InitialState, heap, LockedKeys, MiddlewareMap, Connections, snapped,
                   registered, stack, CrateOpen>>

\* new Crate({ Health: 100, Items: {c} }, Closed)
Init ==
    \E c \in Contents, Closed \in BOOLEAN :
        /\ State = [Health |-> Num(StartHealth), Items |-> Tbl(1)]
        /\ InitialState = [Health |-> Num(StartHealth), Items |-> Tbl(2)]
        /\ heap = <<c, c>>
        /\ LockedKeys = IF Closed THEN Keys ELSE {}
        /\ MiddlewareMap = [k \in Keys |-> "none"]
        /\ Connections = <<>>
        /\ IsVerbose = FALSE
        /\ call = Plain("new", "")
        /\ registered = [k \in Keys |-> "none"]
        /\ stack = <<>>
        /\ snapped = [Health |-> Num(StartHealth), Items |-> [t |-> "table", v |-> c]]
        /\ CrateOpen = TRUE

Next ==
    \/ Update
    \/ Increment
    \/ Reset
    \/ Restore
    \/ Snapshot
    \/ Overwrite
    \/ Lock
    \/ Unlock
    \/ Middleware
    \/ OnChange
    \/ Verbose

Spec == Init /\ [][Next]_vars

\* ------------------------------------------------------- Update(Dispatch)
\* the commits fired, with the content of their values
Fired(fires, h) ==
    [i \in DOMAIN fires |->
        [K |-> fires[i].K, O |-> fires[i].O, N |-> fires[i].N,
         OS |-> DerefVal(fires[i].O, h), NS |-> DerefVal(fires[i].N, h)]]

\* what Fire(K, O, N) delivers for the commits `fires` of UpdateKey: none, or one
FireOf(fires, S, h) ==
    IF fires = <<>> THEN <<>> ELSE Fire(fires[1].K, fires[1].O, fires[1].N, S, h)

\* Update(Dispatch) that gives up at the first locked key
RECURSIVE UpdateEach_StopAtLocked(_, _, _, _)
UpdateEach_StopAtLocked(ord, D, S, h) ==
    IF ord = <<>> \/ Head(ord) \in LockedKeys
    THEN [State |-> S, fires |-> <<>>, fired |-> <<>>, warns |-> 0, mw |-> 0]
    ELSE LET one == UpdateKey(Head(ord), D[Head(ord)], S, FALSE)
             rest == UpdateEach_StopAtLocked(Tail(ord), D, one.State, h)
         IN  [State |-> rest.State, fires |-> one.fires \o rest.fires,
              fired |-> FireOf(one.fires, one.State, h) \o rest.fired,
              warns |-> one.warns + rest.warns, mw |-> one.mw + rest.mw]

\* Update(Dispatch): this.Update(K, V) for every entry [K, V] of Dispatch, in
\* the order `ord` in which pairs() visits them
RECURSIVE UpdateEach(_, _, _, _)
UpdateEach(ord, D, S, h) ==
    IF ord = <<>>
    THEN [State |-> S, fires |-> <<>>, fired |-> <<>>, warns |-> 0, mw |-> 0]
    ELSE LET one == UpdateKey(Head(ord), D[Head(ord)], S, FALSE)
             rest == UpdateEach(Tail(ord), D, one.State, h)
         IN  [State |-> rest.State, fires |-> one.fires \o rest.fires,
              fired |-> FireOf(one.fires, one.State, h) \o rest.fired,
              warns |-> one.warns + rest.warns, mw |-> one.mw + rest.mw]

\* the orders in which pairs() may visit the keys ks
Orders(ks) ==
    {ord \in [1..Cardinality(ks) -> ks] : \A i, j \in DOMAIN ord : i # j => ord[i] # ord[j]}

\* Update(Dispatch) called with a mapping the caller builds over some of the
\* keys: a number for Health, a new table for Items
UpdateDispatch ==
    \E ks \in SUBSET Keys, n \in NumCands, c \in Contents :
        \E ord \in Orders(ks) :
            /\ stack = <<>>
            /\ Room(heap, 3)
            /\ LET a == NewTable(heap)
                   h == Put(heap, a, c)
                   D == [k \in ks |-> IF k = "Items" THEN Tbl(a) ELSE Num(n)]
                   out == UpdateEach(ord, D, State, h)
                   gc == Collect(out.State, InitialState, h)
               IN  /\ State' = gc.State /\ InitialState' = gc.InitialState /\ heap' = gc.heap
                   /\ call' = [op |-> "Dispatch", key |-> "", arg |-> D,
                               argS |-> [k \in ks |-> DerefVal(D[k], h)],
                               old |-> State, oldS |-> DerefRec(State, heap),
                               unchanged |-> Same(out.State, h, State, heap),
                               ret |-> Undefined,
                               fires |-> Fired(out.fires, h), fired |-> out.fired,
                               warns |-> out.warns, mw |-> out.mw]
            /\ UNCHANGED <<LockedKeys, MiddlewareMap, Connections, IsVerbose, snapped, registered,
                           stack, CrateOpen>>

NextDispatch ==
    \/ UpdateDispatch
    \/ Lock
    \/ Unlock
    \/ Middleware
    \/ OnChange

SpecDispatch == Init /\ [][NextDispatch]_vars

\* ------------------------------------------------- tables the caller holds
\* Get(Key) returns this.State[Key] itself: for Items, the table the record
\* holds, which is also the table the caller passed to the constructor, to
\* Update or to Overwrite.  The caller writes into it.
WriteGot ==
    \E c \in Contents :
        /\ stack = <<>>
        /\ typeIs(State["Items"], "table")
        /\ heap' = [heap EXCEPT ![State["Items"].v] = c]
        /\ call' = Plain("Get", "Items")
        /\ UNCHANGED <<State, InitialState, LockedKeys, MiddlewareMap, Connections, IsVerbose,
                       snapped, registered, stack, CrateOpen>>

\* Get() returns DeepCopy(this.State); the caller writes into the copy
WriteCopy ==
    \E c \in Contents :
        /\ stack = <<>>
        /\ Room(heap, 3)
        /\ LET copy == DeepCopy(State, heap)
               h == [copy.heap EXCEPT ![copy.obj["Items"].v] = c]
               gc == Collect(State, InitialState, h)
           IN  State' = gc.State /\ InitialState' = gc.InitialState /\ heap' = gc.heap
        /\ call' = Plain("Get", "")
        /\ UNCHANGED <<LockedKeys, MiddlewareMap, Connections, IsVerbose, snapped, registered,
                       stack, CrateOpen>>

NextHeld ==
    \/ Update
    \/ Increment
    \/ Reset
    \/ Restore
    \/ Snapshot
    \/ Overwrite
    \/ Lock
    \/ Unlock
    \/ WriteGot
    \/ WriteCopy

SpecHeld == Init /\ [][NextHeld]_vars

\* ------------------------------------------------------ a crate destroyed
\* The crate object outlives Destroy(): its methods may still be called.
NextDestroy ==
    \/ Update
    \/ Increment
    \/ Reset
    \/ Unlock
    \/ OnChange
    \/ Destroy

SpecDestroy == Init /\ [][NextDestroy]_vars

\* ------------------------------------- the revision with an open/closed flag
\* src/unnamed/part_000: the crate has no locks and no verbose mode; one flag,
\* CrateOpen, is set by the constructor, Open() and Close().

\* Update(Key, Value): a closed crate returns Value and writes nothing; an open
\* one commits and fires whatever the result
UpdateOpen(Key, Value, S, slow) ==
    LET Old == S[Key]
    IN  IF ~CrateOpen
        THEN [State |-> S, ret |-> Value, fires |-> <<>>, warns |-> 0, mw |-> 0]
        ELSE LET MW == ExecuteMiddleware(Key, Value, Old, slow)
             IN  [State |-> [S EXCEPT ![Key] = MW.Result], ret |-> Old,
                  fires |-> <<[K |-> Key, O |-> Old, N |-> MW.Result]>>,
                  warns |-> MW.warns, mw |-> MW.mw]

\* Increment(Key, Amount): CrateOpen is not read
IncrementOpen(Key, Amount, S, slow) ==
    IF ~typeIs(S[Key], "number")
    THEN [State |-> S, ret |-> S[Key], fires |-> <<>>, warns |-> 1, mw |-> 0]
    ELSE LET Old == S[Key]
             New == Num(Old.v + Amount)
             MW == ExecuteMiddleware(Key, New, Old, slow)
         IN  [State |-> [S EXCEPT ![Key] = MW.Result], ret |-> Old,
              fires |-> <<[K |-> Key, O |-> Old, N |-> MW.Result]>>,
              warns |-> MW.warns, mw |-> MW.mw]

\* Reset(Key): this.Update(Key, this.InitialState[Key])
ResetOpen(Key, S, slow) == UpdateOpen(Key, InitialState[Key], S, slow)

UpdateRev0 ==
    \E Key \in Keys :
        /\ Room(heap, 3)
        /\ \/ \E n \in NumCands :
                /\ typeIs(State[Key], "number")
                /\ Returned("Update", Key, Num(n), UpdateOpen(Key, Num(n), State, FALSE), heap)
           \/ \E c \in Contents :
                /\ typeIs(State[Key], "table")
                /\ LET a == NewTable(heap)
                   IN  Returned("Update", Key, Tbl(a), UpdateOpen(Key, Tbl(a), State, FALSE),
                                Put(heap, a, c))

IncrementRev0 ==
    \E Key \in Keys, Amount \in Amounts :
        /\ Room(heap, 3)
        /\ Returned("Increment", Key, Num(Amount), IncrementOpen(Key, Amount, State, FALSE),
                    heap)

ResetRev0 ==
    \E Key \in Keys :
        /\ Room(heap, 3)
        /\ Returned("Reset", Key, InitialState[Key], ResetOpen(Key, State, FALSE), heap)

\* OnUpdate(Key, Callback) / OnUpdate(Callback): the handler is the one of OnChange
OnUpdate ==
    /\ stack = <<>>
    /\ Len(Connections) < MaxConnections
    /\ \/ \E Key \in Keys : Connections' = Connect("Scoped", Key, "none")
       \/ Connections' = Connect("Global", "", "none")
    /\ call' = Plain("OnUpdate", "")
    /\ UNCHANGED <<State, InitialState, heap, LockedKeys, MiddlewareMap, IsVerbose, snapped,
                   registered, stack, CrateOpen>>

\* Open() / Close(): this.CrateOpen = true / false
SetOpen(b) ==
    /\ stack = <<>>
    /\ CrateOpen' = b
    /\ call' = Plain(IF b THEN "Open" ELSE "Close", "")
    /\ UNCHANGED <<State, InitialState, heap, LockedKeys, MiddlewareMap, Connections, IsVerbose,
                   snapped, registered, stack>>

Open == SetOpen(TRUE)
Close == SetOpen(FALSE)

\* new Crate({ Health: 100, Items: {c} }, Closed): this.CrateOpen = !Closed
InitRev0 ==
    \E c \in Contents, Closed \in BOOLEAN :
        /\ State = [Health |-> Num(StartHealth), Items |-> Tbl(1)]
        /\ InitialState = [Health |-> Num(StartHealth), Items |-> Tbl(2)]
        /\ heap = <<c, c>>
        /\ LockedKeys = {}
        /\ MiddlewareMap = [k \in Keys |-> "none"]
        /\ Connections = <<>>
        /\ IsVerbose = FALSE
        /\ call = Plain("new", "")
        /\ registered = [k \in Keys |-> "none"]
        /\ stack = <<>>
        /\ snapped = [Health |-> Num(StartHealth), Items |-> [t |-> "table", v |-> c]]
        /\ CrateOpen = ~Closed

NextRev0 ==
    \/ UpdateRev0
    \/ IncrementRev0
    \/ ResetRev0
    \/ OnUpdate
    \/ Open
    \/ Close

SpecRev0 == InitRev0 /\ [][NextRev0]_vars

\* ------------------------------------------------- callbacks that call back
\* Fire runs the handlers on the caller's stack, so a callback that calls Update
\* on the same crate runs that Update, and its Fire, before the next handler of
\* the outer Fire is called.  Here a call is followed handler by handler.

\* Fire(K, O, N) begins, for the n-th commit of the call; pre and post are the
\* record, by content, just before and just after the commit
Frame(e, n, pre, post, h) ==
    [K |-> e.K, O |-> e.O, N |-> e.N, next |-> 1, n |-> n,
     pre |-> DerefRec(pre, h), post |-> DerefRec(post, h)]

\* Update / Increment called by the caller: lock check, middleware, commit; the
\* handlers are still to be called
Started(op, Key, Value, out, h) ==
    /\ stack = <<>>
    /\ InRange(out.State)
    /\ IF out.fires = <<>>
       THEN /\ LET gc == Collect(out.State, InitialState, h)
               IN  State' = gc.State /\ InitialState' = gc.InitialState /\ heap' = gc.heap
            /\ stack' = <<>>
       ELSE /\ State' = out.State
            /\ heap' = h
            /\ stack' = <<Frame(out.fires[1], 1, State, out.State, h)>>
            /\ UNCHANGED InitialState
    /\ call' = [op |-> op, key |-> Key, arg |-> Value, argS |-> DerefVal(Value, h),
                old |-> State[Key],
                unchanged |-> Same(out.State, h, State, heap),
                ret |-> out.ret, fires |-> Fired(out.fires, h), fired |-> <<>>,
                warns |-> out.warns, mw |-> out.mw]
    /\ UNCHANGED <<LockedKeys, MiddlewareMap, Connections, IsVerbose, snapped, registered,
                   CrateOpen>>

UpdateCall ==
    \E Key \in Keys :
        /\ Room(heap, 3)
        /\ \/ \E n \in NumCands :
                /\ typeIs(State[Key], "number")
                /\ Started("Update", Key, Num(n), UpdateKey(Key, Num(n), State, FALSE), heap)
           \/ \E c \in Contents :
                /\ typeIs(State[Key], "table")
                /\ LET a == NewTable(heap)
                   IN  Started("Update", Key, Tbl(a), UpdateKey(Key, Tbl(a), State, FALSE),
                               Put(heap, a, c))

IncrementCall ==
    \E Key \in Keys, Amount \in Amounts :
        /\ Room(heap, 3)
        /\ Started("Increment", Key, Num(Amount), IncrementKey(Key, Amount, State, FALSE), heap)

\* OnChange with a callback that may call back
Listen ==
    /\ stack = <<>>
    /\ Len(Connections) < MaxListeners
    /\ \E react \in Reactions :
          \/ \E Key \in Keys : Connections' = Connect("Scoped", Key, react)
          \/ Connections' = Connect("Global", "", react)
    /\ call' = Plain("OnChange", "")
    /\ UNCHANGED <<State, InitialState, heap, LockedKeys, MiddlewareMap, IsVerbose, snapped,
                   registered, stack, CrateOpen>>

\* what the callback of a connection does once called
React(react, S) ==
    CASE react = "SetHealth" -> UpdateKey("Health", Num(150), S, FALSE)
      [] react = "Bump" -> IncrementKey("Health", 0, S, FALSE)

\* the innermost Fire calls its next handler; the callback may call Update
Deliver ==
    /\ stack # <<>>
    /\ LET top == stack[Len(stack)]
           i == top.next
       IN  /\ i <= Len(Connections)
           /\ Room(heap, 2)
           /\ LET ds == Handler(i, top.K, top.O, top.N, State, heap)
                  seen == [j \in DOMAIN ds |->
                              [sub |-> ds[j].sub, K |-> ds[j].K,
                               New |-> ds[j].New, Old |-> ds[j].Old,
                               OS |-> DerefVal(top.O, heap),
                               NS |-> DerefVal(top.N, heap), n |-> top.n,
                               live |-> DerefRec(State, heap),
                               pre |-> top.pre, post |-> top.post]]
                  advanced == [stack EXCEPT ![Len(stack)].next = i + 1]
              IN  IF ds # <<>> /\ Connections[i].react # "none"
                  THEN LET out == React(Connections[i].react, State)
                       IN  /\ State' = out.State
                           /\ IF out.fires = <<>>
                              THEN stack' = advanced
                              ELSE /\ Len(stack) < MaxDepth
                                   /\ stack' = Append(advanced,
                                          Frame(out.fires[1], Len(call.fires) + 1,
                                                State, out.State, heap))
                           /\ call' = [call EXCEPT !.fired = @ \o seen,
                                                   !.fires = @ \o Fired(out.fires, heap)]
                  ELSE /\ State' = State
                       /\ stack' = advanced
                       /\ call' = [call EXCEPT !.fired = @ \o seen]
    /\ UNCHANGED <<InitialState, heap, LockedKeys, MiddlewareMap, Connections, IsVerbose,
                   snapped, registered, CrateOpen>>

\* the innermost Fire has called every handler and returns
Return ==
    /\ stack # <<>>
    /\ stack[Len(stack)].next > Len(Connections)
    /\ stack' = SubSeq(stack, 1, Len(stack) - 1)
    /\ IF Len(stack) = 1
       THEN LET gc == Collect(State, InitialState, heap)
            IN  State' = gc.State /\ InitialState' = gc.InitialState /\ heap' = gc.heap
       ELSE UNCHANGED <<State, InitialState, heap>>
    /\ UNCHANGED <<LockedKeys, MiddlewareMap, Connections, IsVerbose, call, snapped, registered,
                   CrateOpen>>

NextReentrant ==
    \/ UpdateCall
    \/ IncrementCall
    \/ Listen
    \/ Deliver
    \/ Return
    \/ Unlock

SpecReentrant == Init /\ [][NextReentrant]_vars

\* ================================================================== claims
\* the lock, the type and the resolved value of the call `call` records
Unlocked == call.key \notin LockedKeys
Resolved(Key, New, Old) ==
    IF registered[Key] = "none" THEN New ELSE Method(registered[Key], New, Old)
Deliveries(i) == SelectSeq(call.fired, LAMBDA d : d.sub = i)

\* C1: Update(k, v) on a locked key leaves the live record unchanged, fires no
\* notification and returns the value k held before the call.
C1_LockedUpdateReturnsCurrent ==
    (call.op = "Update" /\ ~Unlocked) =>
        /\ call.unchanged
        /\ call.fires = <<>> /\ call.fired = <<>>
        /\ call.ret = call.old

\* C2: Update(k, v) on an unlocked key holding c returns c and leaves State[k]
\* equal to m(v, c), m the transform last registered for k, or to v when none is.
C2_UpdateResolves ==
    (call.op = "Update" /\ Unlocked) =>
        /\ call.ret = call.old
        /\ DerefVal(State[call.key], heap) =
               IF registered[call.key] = "none" THEN call.argS
               ELSE Method(registered[call.key], call.arg, call.old)

\* the second step of the scenario: Health = 0 under the clamp, Update(Health, 150)
\* sets Health to 100 and returns 0
C2_Witness ==
    /\ call.op = "Update" /\ call.key = "Health" /\ Unlocked
    /\ registered["Health"] = "Clamp"
    /\ call.arg = Num(150) /\ call.old = Num(0)
    /\ State["Health"] = Num(100) /\ call.ret = Num(0)

\* C3: when Update(k, v) on an unlocked key resolves to the current value of k
\* (the same number, the same table), the live record is unchanged, no handler
\* is called and the current value is returned.
C3_UpdateNoOp ==
    (call.op = "Update" /\ Unlocked /\ Resolved(call.key, call.arg, call.old) = call.old) =>
        /\ call.unchanged
        /\ call.fires = <<>> /\ call.fired = <<>>
        /\ call.ret = call.old

C3_Witness ==
    /\ call.op = "Update" /\ Unlocked
    /\ registered[call.key] = "Clamp"
    /\ call.arg # call.old
    /\ Resolved(call.key, call.arg, call.old) = call.old
    /\ Connections # <<>>

\* C4: Increment(k, amount) on an unlocked numeric key commits
\* middleware(current + amount, current), returns the value before the call and
\* fires exactly once, also when the value resolves back to the current one.
C4_IncrementAlwaysFires ==
    (call.op = "Increment" /\ Unlocked /\ typeIs(call.old, "number")) =>
        /\ State[call.key] = Resolved(call.key, Num(call.old.v + call.arg.v), call.old)
        /\ call.ret = call.old
        /\ Len(call.fires) = 1
        /\ call.fires[1].K = call.key
        /\ call.fires[1].O = call.old
        /\ call.fires[1].N = State[call.key]
        /\ \A i \in 1..Len(Connections) :
               (Connections[i].scope = "Global" \/ Connections[i].Key = call.key)
                   => Len(Deliveries(i)) = 1

C4_Witness ==
    /\ call.op = "Increment" /\ Unlocked /\ typeIs(call.old, "number")
    /\ call.arg.v # 0
    /\ Len(call.fires) = 1 /\ call.fires[1].N = call.fires[1].O
    /\ Len(call.fired) = 1

\* C5: Increment(k, amt) on an unlocked key whose value is not a number leaves the
\* record unchanged, fires nothing, returns the current value and warns exactly
\* once, verbose or not.
C5_IncrementNonNumberWarns ==
    (call.op = "Increment" /\ Unlocked /\ ~typeIs(call.old, "number")) =>
        /\ call.unchanged
        /\ call.fires = <<>> /\ call.fired = <<>>
        /\ call.ret = call.old
        /\ call.warns = 1

\* C6: Restore() leaves the live record equal to the record as it was at the last
\* Snapshot(), whatever was called in between, and to the construction value
\* when Snapshot() was never called.
C6_RestoreYieldsSnapshot ==
    call.op = "Restore" => DerefRec(State, heap) = snapped

C6_Witness ==
    /\ call.op = "Restore"
    /\ ~call.unchanged
    /\ snapped["Health"] # Num(StartHealth)
    /\ DerefRec(State, heap) = snapped

\* C7: Reset(k) is Update(k, Baseline[k]): on an unlocked key the value becomes
\* middleware(Baseline[k], current) and a notification is fired iff it changed;
\* on a locked key nothing changes and nothing is fired.
C7_ResetIsUpdateToBaseline ==
    call.op = "Reset" =>
        IF Unlocked
        THEN /\ DerefVal(State[call.key], heap) =
                    IF registered[call.key] = "none" THEN snapped[call.key]
                    ELSE Method(registered[call.key], snapped[call.key], call.old)
             /\ (call.fires # <<>>) <=> ~call.unchanged
             /\ call.unchanged <=> (Resolved(call.key, call.arg, call.old) = call.old)
             /\ call.fires # <<>> =>
                    /\ call.fires[1].K = call.key
                    /\ call.fires[1].O = call.old
                    /\ call.fires[1].NS = DerefVal(State[call.key], heap)
        ELSE call.unchanged /\ call.fires = <<>> /\ call.fired = <<>>

\* the middleware reshapes the restored value: the default 150 comes back as 100
C7_Witness ==
    /\ call.op = "Reset" /\ call.key = "Health" /\ Unlocked
    /\ registered["Health"] = "Clamp"
    /\ snapped["Health"] = Num(150)
    /\ State["Health"] = Num(100)
    /\ call.fires # <<>>

\* C8: Restore() sets every key, the locked ones too, to its Baseline value, runs
\* no transform, calls no handler and leaves the locks, the middleware and the
\* Baseline as they were.
C8_RestoreBypasses ==
    [][call'.op = "Restore" =>
          /\ DerefRec(State', heap') = DerefRec(InitialState, heap)
          /\ call'.mw = 0
          /\ call'.fires = <<>> /\ call'.fired = <<>>
          /\ LockedKeys' = LockedKeys
          /\ MiddlewareMap' = MiddlewareMap
          /\ Connections' = Connections
          /\ DerefRec(InitialState', heap') = DerefRec(InitialState, heap)]_vars

C8_Witness ==
    /\ call.op = "Restore"
    /\ ~call.unchanged
    /\ LockedKeys = Keys
    /\ MiddlewareMap["Health"] # "none"
    /\ Connections # <<>>

\* C9: a handler connected by OnChange(k, callback) is called once for every
\* fired commit to k, with that commit's (new, old), and never for a commit to
\* another key.
C9_ScopedHandler ==
    \A i \in 1..Len(Connections) :
        Connections[i].scope = "Scoped" =>
            LET mine == Deliveries(i)
                due == SelectSeq(call.fires, LAMBDA e : e.K = Connections[i].Key)
            IN  /\ \A j \in 1..Len(mine) : mine[j].K = Connections[i].Key
                /\ Len(mine) = Len(due)
                /\ \A j \in 1..Len(mine) :
                       mine[j].New = due[j].NS /\ mine[j].Old = due[j].OS

\* a commit to Items is fired and the handler scoped to Health is not called
C9_Witness ==
    /\ Len(Connections) >= 1
    /\ Connections[1].scope = "Scoped" /\ Connections[1].Key = "Health"
    /\ call.key = "Items" /\ call.fires # <<>>
    /\ Deliveries(1) = <<>>

\* the calls made to whole-store handlers during the call `call` records
GlobalDeliveries ==
    {j \in DOMAIN call.fired : Connections[call.fired[j].sub].scope = "Global"}
EveryCommitDelivered ==
    stack = <<>> =>
        \A i \in 1..Len(Connections) :
            Connections[i].scope = "Global" => Len(Deliveries(i)) = Len(call.fires)

\* C10: a whole-store handler is called on every fired commit to any key; for a
\* commit to k it receives the live record just after that commit and the live
\* record just before it, and the two agree on every key other than k.
C10_GlobalSeesCommit ==
    /\ \A j \in GlobalDeliveries :
           LET d == call.fired[j]
           IN  /\ d.New = d.post
               /\ d.Old = d.pre
               /\ \A k \in Keys \ {d.K} : d.New[k] = d.Old[k]
    /\ EveryCommitDelivered

\* C10, amended: a whole-store handler is called on every fired commit to any
\* key; for a commit to k it receives the live record as it is when the handler is
\* called and that same record with k set back to the commit's old value, so the
\* two agree on every key other than k; they are the records just after and just
\* before the commit when no callback called earlier changed the crate since.
C10_GlobalSeesLiveRecord ==
    /\ \A j \in GlobalDeliveries :
           LET d == call.fired[j]
           IN  /\ d.New = d.live
               /\ d.Old = [d.live EXCEPT ![d.K] = d.OS]
               /\ \A k \in Keys \ {d.K} : d.New[k] = d.Old[k]
               /\ d.live = d.post => (d.New = d.post /\ d.Old = d.pre)
    /\ EveryCommitDelivered

\* a whole-store handler called after an earlier callback has changed the crate
C10_Witness ==
    \E j \in GlobalDeliveries :
        LET d == call.fired[j]
        IN  /\ d.New = d.live
            /\ d.New # d.post
            /\ d.Old # d.pre
            /\ d.OS # d.New[d.K]

C12_IsLockedRederived ==
    /\ [](IsLocked("") <=> Keys \subseteq LockedKeys)
    /\ []((call.op = "Lock" /\ call.key = "") => IsLocked(""))
    /\ [][\A k \in Keys :
              (call.op = "Lock" /\ call.key = "" /\ call'.op = "Unlock" /\ call'.key = k) =>
                  /\ ~IsLocked("")'
                  /\ ~IsLocked(k)'
                  /\ \A j \in Keys \ {k} : IsLocked(j)']_vars

\* Lock() and then Unlock("Items"): Health is still locked, the crate is not
C12_Witness ==
    /\ call.op = "Unlock" /\ call.key = "Items"
    /\ LockedKeys = {"Health"}
    /\ ~IsLocked("") /\ IsLocked("Health")

\* C13: Update(Dispatch) is one single-key Update per entry, whatever the order
\* of the entries: an entry on a locked key leaves the key as it was and fires
\* nothing; an entry on an unlocked key is committed through the middleware of
\* its key and, when that changes the value, fired once to every handler of the
\* key; a key with no entry is left alone.
C13_DispatchPerEntry ==
    call.op = "Dispatch" =>
        \A k \in Keys :
            LET mine == SelectSeq(call.fires, LAMBDA e : e.K = k)
                now == DerefVal(State[k], heap)
            IN  IF k \notin DOMAIN call.arg \/ k \in LockedKeys
                THEN now = call.oldS[k] /\ mine = <<>>
                ELSE /\ now = IF registered[k] = "none" THEN call.argS[k]
                              ELSE Method(registered[k], call.arg[k], call.old[k])
                     /\ IF Resolved(k, call.arg[k], call.old[k]) = call.old[k]
                        THEN mine = <<>>
                        ELSE /\ Len(mine) = 1
                             /\ mine[1].OS = call.oldS[k]
                             /\ mine[1].NS = now
                     /\ \A i \in 1..Len(Connections) :
                            (Connections[i].scope = "Global" \/ Connections[i].Key = k) =>
                                Len(SelectSeq(Deliveries(i), LAMBDA d : d.K = k)) = Len(mine)

\* both keys in the mapping, Items locked: Health is committed and delivered
C13_Witness ==
    /\ call.op = "Dispatch"
    /\ DOMAIN call.arg = Keys
    /\ LockedKeys = {"Items"}
    /\ State["Health"] # call.old["Health"]
    /\ Len(call.fires) = 1
    /\ Len(call.fired) = 1

\* C14: Increment(k, amt) on a locked key, number or not, leaves the record
\* unchanged, runs no middleware, fires nothing and returns the current value; it
\* writes one log entry when the crate is verbose and nothing when it is not.
C14_LockedIncrementLogsVerbose ==
    (call.op = "Increment" /\ ~Unlocked) =>
        /\ call.unchanged
        /\ call.mw = 0
        /\ call.fires = <<>> /\ call.fired = <<>>
        /\ call.ret = call.old
        /\ call.warns = IF IsVerbose THEN 1 ELSE 0

\* what does hold of Increment on a locked key: everything but the log entry
C14_LockedIncrementSilent ==
    (call.op = "Increment" /\ ~Unlocked) =>
        /\ call.unchanged
        /\ call.mw = 0
        /\ call.fires = <<>> /\ call.fired = <<>>
        /\ call.ret = call.old
        /\ call.warns = 0

\* the record holds the very table the default holds
Aliased == State["Items"].v = InitialState["Items"].v

\* C15: the default is changed by Snapshot() alone: no call of Update, Increment,
\* Reset, Restore, Overwrite, Lock, Unlock or Get, and no write of the caller
\* into a table it got from Get(key) or passed to the constructor, changes a
\* value of the default, the content of its tables included.
C15_BaselineIndependent ==
    [][call'.op # "Snapshot" =>
          DerefRec(InitialState', heap') = DerefRec(InitialState, heap)]_vars

\* what does hold: the default keeps its values for as long as the record does
\* not hold the table of the default, and only Reset puts it there
C15_BaselineKeptUnlessAliased ==
    [][/\ (call'.op # "Snapshot" /\ ~Aliased) =>
              DerefRec(InitialState', heap') = DerefRec(InitialState, heap)
       /\ (~Aliased /\ Aliased') => call'.op = "Reset"]_vars

\* Reset("Items") has put the table of the default into the record and the
\* caller has written into the table Get("Items") returns
C15_Witness ==
    /\ call.op = "Get" /\ call.key = "Items"
    /\ Aliased
    /\ DerefRec(InitialState, heap) # snapped

\* C16: whatever Update, Increment, Reset, Restore, Snapshot, Lock, Unlock and
\* Overwrite with a record of the same keys are called, the record and the
\* default have exactly the keys of the schema, and every locked key is a key of
\* the schema.
C16_KeysAreSchema ==
    /\ KeysOf(State) = Keys
    /\ KeysOf(InitialState) = Keys
    /\ LockedKeys \subseteq Keys

\* a record rebuilt by Restore() from a default rebuilt by Snapshot(), Items locked
C16_Witness ==
    /\ call.op = "Restore"
    /\ ~call.unchanged
    /\ snapped["Health"] # Num(StartHealth)
    /\ LockedKeys = {"Items"}
    /\ KeysOf(State) = Keys

\* C17: in the revision with the open/closed flag, while the crate is closed no
\* call of Update, Increment or Reset changes the record and none calls a handler.
C17_ClosedPreventsWrites ==
    (call.op \in {"Update", "Increment", "Reset"} /\ ~CrateOpen) =>
        /\ call.unchanged
        /\ call.fires = <<>>
        /\ call.fired = <<>>

\* what does hold on a closed crate: Update and Reset write nothing and call no
\* handler
C17_ClosedUpdateIgnored ==
    (call.op \in {"Update", "Reset"} /\ ~CrateOpen) =>
        /\ call.unchanged
        /\ call.fires = <<>>
        /\ call.fired = <<>>

\* Increment on a closed crate has changed Health and called a handler
C17_Witness ==
    /\ ~CrateOpen
    /\ call.op = "Increment"
    /\ ~call.unchanged
    /\ State["Health"] # call.old
    /\ call.fired # <<>>

\* --------------------------------------------- calls whose callbacks call back
\* the Fire g was started, by a callback, while the Fire f was running, and is
\* the Fire f over again: the same commit made from the same record.  The
\* handlers are the same and do the same, so g starts that Fire once more
Restarted(f, g) ==
    /\ f.K = g.K /\ f.O = g.O /\ f.N = g.N
    /\ f.pre = g.pre /\ f.post = g.post

\* no callback does more than Update("Health", 150): once Health is 150 that
\* call finds the value unchanged and fires nothing
Settling == \A i \in 1..Len(Connections) : Connections[i].react \in {"none", "SetHealth"}

\* the handlers the running Fire calls of the stack are still to call
RECURSIVE Pending(_)
Pending(st) ==
    IF st = <<>> THEN 0
    ELSE (Len(Connections) + 1 - Head(st).next) + Pending(Tail(st))

\* what is left to do before the call returns: the frames to return from, the
\* handlers to call and, while Health is not 150, one more Fire
Variant ==
    Len(stack) + Pending(stack)
        + (IF State["Health"] # Num(150) THEN Len(Connections) + 1 ELSE 0)

\* C18: every call of Update or Increment returns, whatever the handlers
\* connected and whatever they call on the crate: the Fire it runs never starts,
\* through a callback, the same Fire again.
C18_EveryCallReturns ==
    \A i, j \in 1..Len(stack) : i < j => ~Restarted(stack[i], stack[j])

\* C18, amended: a call of Update or Increment returns when no callback does
\* more than call Update with a fixed value: every step of the call, a handler
\* called or a Fire returning, brings it closer to its return, and a next step
\* is always there to take.
C18_SettlingCallsReturn ==
    /\ []((stack # <<>> /\ Settling) => ENABLED (Deliver \/ Return))
    /\ [][(stack # <<>> /\ Settling) => Variant' < Variant]_vars

\* a callback has called Update and the Fire of that Update runs inside the first
C18_Witness ==
    /\ Settling
    /\ Len(stack) = 2
    /\ Len(call.fires) = 2
    /\ stack[2].next > 1

\* the calls made to handlers for the n-th commit of the call, in the order made
DeliveriesOf(n) == SelectSeq(call.fired, LAMBDA d : d.n = n)

\* for one commit the handlers are called in the order they were connected
InConnectionOrder ==
    \A n \in 1..Len(call.fires) :
        LET ds == DeliveriesOf(n)
        IN  \A a, b \in 1..Len(ds) : a < b => ds[a].sub < ds[b].sub

\* C19: a handler is called only after the commit and in connection order:
\* whenever a handler is called for a commit (k, new, old), the record holds new
\* at k, and for one commit the handlers are called in the order connected.
C19_NotifiedAfterCommit ==
    /\ \A j \in DOMAIN call.fired :
           LET d == call.fired[j]
           IN  d.live[d.K] = d.NS
    /\ InConnectionOrder

\* C19, amended: the commit is made before the first handler is called, and for
\* one commit the handlers are called in the order connected; when a handler is
\* called the record holds new at k provided no callback called earlier for that
\* commit calls back into the crate.
C19_CommittedBeforeFire ==
    /\ \A j \in DOMAIN call.fired :
           LET d == call.fired[j]
           IN  /\ d.post[d.K] = d.NS
               /\ (\A e \in 1..(j - 1) :
                       call.fired[e].n = d.n => Connections[call.fired[e].sub].react = "none")
                      => d.live[d.K] = d.NS
    /\ InConnectionOrder

\* the second handler of a commit is called after the first has written the key
\* again: the record no longer holds the new value it is given
C19_Witness ==
    \E j \in DOMAIN call.fired :
        LET d == call.fired[j]
        IN  /\ d.sub = 2
            /\ d.post[d.K] = d.NS
            /\ d.live[d.K] # d.NS

\* the calls ds made to one handler follow the commits: each is given as old value
\* the new value of the one before, and once the call has returned the last was
\* given the value the key k holds
FollowsCommits(ds, k) ==
    /\ \A j \in 2..Len(ds) : ds[j].Old = ds[j - 1].New
    /\ (stack = <<>> /\ ds # <<>>) => ds[Len(ds)].New = DerefVal(State[k], heap)

\* C20: a handler connected for a key k is called for the commits to k in the
\* order they were made, also when other callbacks call back into the crate:
\* each call gives as old value the new value of the call before, and the last
\* one gives the value k holds once the outermost call has returned.
C20_ScopedSeesCommitOrder ==
    \A i \in 1..Len(Connections) :
        Connections[i].scope = "Scoped" => FollowsCommits(Deliveries(i), Connections[i].Key)

\* C20, amended: the same of a handler connected before every callback that
\* calls back into the crate.
C20_FirstSeesCommitOrder ==
    \A i \in 1..Len(Connections) :
        (/\ Connections[i].scope = "Scoped"
         /\ \A j \in 1..(i - 1) : Connections[j].react = "none")
            => FollowsCommits(Deliveries(i), Connections[i].Key)

\* a handler of Health connected before one that calls back: it was called for
\* two commits, in their order, and the call has returned
C20_Witness ==
    /\ Len(Connections) = 2
    /\ Connections[1].scope = "Scoped" /\ Connections[1].Key = "Health"
    /\ Connections[1].react = "none"
    /\ Connections[2].react # "none"
    /\ stack = <<>>
    /\ Len(Deliveries(1)) = 2
    /\ Deliveries(1)[2].Old = Deliveries(1)[1].New
    /\ Deliveries(1)[2].New # Deliveries(1)[1].New

====
